---- MODULE Spec2Model ----
(***************************************************************************)
(* Model of gaiaclient.Client (src/gaiaclient.py): the application wait    *)
(* engine (app_wait_event / wait_app_state / on_app_message), the machine  *)
(* signal tracker (on_status_message / wait_ready / wait_closing /         *)
(* wait_not_ready), POST action invocation (_get_fields.post_func) and the *)
(* construction of the application registry in Client.__init__.            *)
(***************************************************************************)
EXTENDS Integers, Sequences, FiniteSets, TLC

\* ------------------------------------------------------------------ bounds
\* caller threads that use the client concurrently
NumCallers == 2
\* total number of wait_app_state calls made in one behaviour
MaxRequests == 2

Callers == 1..NumCallers
Requests == 1..MaxRequests

\* ------------------------------------------------------------ JSON values
\* A decoded JSON value is a string or a list of strings; NoKey stands for a
\* key that the decoded object does not carry.  Python's == on two such values
\* is equality of these records: a list never equals a string.
JStr(s) == [t |-> "str", v |-> <<s>>]
JList(q) == [t |-> "list", v |-> q]
NoKey == [t |-> "missing", v |-> <<>>]

\* Python's  x in lst  for a list of strings lst
InList(x, lst) == \E i \in 1..Len(lst) : JStr(lst[i]) = x

\* applications of the registry, and the names a feed message can carry
Apps == {"app1"}
MessageNames == {"app1", "app2"}
AppStates == {"Idle", "Running", "Error"}
Targets == {"Running"}

\* states.extend(['error', 'Error', 'ErrorState'])
ErrorStates == <<"error", "Error", "ErrorState">>

\* the list  states  built by app_wait_event
AcceptableStates(state, stop_wait_on_error) ==
    IF stop_wait_on_error THEN <<state>> \o ErrorStates ELSE <<state>>

\* messages the application feed can deliver: text that json.loads rejects
\* (ok = FALSE), or an object with or without the keys name and value
AppMessages ==
    {[ok |-> FALSE, name |-> NoKey, value |-> NoKey]} \cup
    [ok : {TRUE},
     name : {JStr(a) : a \in MessageNames} \cup {NoKey},
     value : {JStr("Running"), JStr("Error")}
             \cup {JList(AcceptableStates(s, TRUE)) : s \in Targets}
             \cup {NoKey}]

NoMessage == [ok |-> FALSE, name |-> NoKey, value |-> NoKey]

\* ------------------------------------------------------------------ state
\* the application wait engine
VARIABLES
    applications,        \* self._applications: key -> [actions, properties]
    appState,            \* the state each application really is in (remote)
    app_wait_list,       \* self.app_wait_list: sequence of request ids
    app_wait_list_lock,  \* holder of self.app_wait_list_lock
    request,             \* the dict of a request: name, state (the list), target
    wait_event,          \* request id -> flag of its threading.Event
    resolved_state,      \* request id -> content of its queue.Queue
    nextReq,             \* identity of the next Event/Queue pair created
    pc,                  \* caller -> position in wait_app_state
    handle,              \* caller -> the (wait_event, resolved_state) it holds
    result,              \* caller -> outcome of its last wait_app_state
    l_pc,                \* position of on_app_message
    message,             \* the message on_app_message is handling
    remove_these,        \* its local list remove_these
    l_exc,               \* the exception that ended its handling of the last
                         \*   message, "none" when that ended normally
    puts,                \* request id -> number of resolved_state.put calls
    sets,                \* request id -> number of wait_event.set calls
    removals,            \* request id -> number of app_wait_list.remove calls
    appends,             \* request id -> number of app_wait_list.append calls
    missed_message,      \* caller -> a message it waits for was handled between
                         \*   its read of the state and its append
    was_in_target        \* caller -> during its call the application was in the
                         \*   target state, or a message reporting it was handled

waitOwn == <<appState, app_wait_list, app_wait_list_lock, request, wait_event,
             resolved_state, nextReq, pc, handle, result, l_pc, message,
             remove_these, l_exc, puts, sets, removals, appends, missed_message,
             was_in_target>>
waitVars == <<applications, waitOwn>>

\* the machine signal tracker
VARIABLES
    machineState,          \* the state the machine really is in (GET /api)
    statusFeed,            \* machine-state messages sent and not yet handled
    wait_ready_event,      \* self.wait_ready_event
    wait_not_ready_event,  \* self.wait_not_ready_event
    wait_closing_event,    \* self.wait_closing_event
    has_callback,          \* whether machine_state_callback was given
    s_pc,                  \* position of on_status_message
    s_msg,                 \* the decoded message it is handling
    s_exc,                 \* the exception that ended its handling of the last
                           \*   message, "none" when that ended normally
    last_processed,        \* state of the last message it handled to the end
    m_pc,                  \* position of the caller in wait_ready/closing/not_ready
    m_op,                  \* the operation the caller is in
    m_snap,                \* the state returned by its first read of self.state
    m_ret,                 \* what the operation returned
    m_during               \* the states the machine was in during the operation

machineVars == <<machineState, statusFeed, wait_ready_event,
                 wait_not_ready_event, wait_closing_event, has_callback, s_pc,
                 s_msg, s_exc, last_processed, m_pc, m_op, m_snap, m_ret, m_during>>

signals == <<wait_ready_event, wait_not_ready_event, wait_closing_event>>

\* action invocation
VARIABLES
    action,       \* the dict  action  that post_func and get_func close over
    built,        \* that dict as it was when _get_fields built the callable
    sent,         \* the last request sent: verb and JSON body
    kwargs,       \* the keyword arguments of the last invocation
    a_status      \* how the last invocation ended

actionVars == <<action, built, sent, kwargs, a_status>>

\* construction of the registry
VARIABLES
    entities,     \* the list returned by _get_entities
    r_idx,        \* position of  for entity in entities
    r_status      \* "running", "done", or "failed" when __init__ raised

registryOwn == <<entities, r_idx, r_status>>
registryVars == <<applications, registryOwn>>

vars == <<applications, waitOwn, machineVars, actionVars, registryOwn>>

\* what the actions of one component leave alone
outsideWait == <<machineVars, actionVars, registryOwn>>
outsideMachine == <<waitVars, actionVars, registryOwn>>
outsideAction == <<waitVars, machineVars, registryOwn>>
outsideRegistry == <<waitOwn, machineVars, actionVars>>

\* holders of the lock
Free == <<"free", 0>>
ListenerThread == <<"listener", 0>>
CallerThread(c) == <<"caller", c>>

NoRequest == [name |-> NoKey, state |-> NoKey, target |-> ""]
NoResult == [type |-> "none", name |-> "", state |-> "", actual |-> NoKey]
Success(name, state) ==
    [type |-> "ok", name |-> name, state |-> state, actual |-> NoKey]
TimeoutError(name, state) ==
    [type |-> "TimeoutError", name |-> name, state |-> state, actual |-> NoKey]
ApplicationError(name, state, current_state) ==
    [type |-> "ApplicationError", name |-> name, state |-> state,
     actual |-> current_state]

\* a registry entry as the wait engine reads it: properties.state
Entry(name, state) ==
    [actions |-> <<>>,
     properties |-> [name |-> name, has_alias |-> TRUE, alias |-> "", state |-> state]]

\* ------------------------------------------------------- the remote machine
\* an application changes state on the machine; the registry is not refreshed
RemoteAppChange(a, s) ==
    /\ s # appState[a]
    /\ appState' = [appState EXCEPT ![a] = s]
    /\ UNCHANGED <<applications, app_wait_list, app_wait_list_lock, request,
                   wait_event, resolved_state, nextReq, pc, handle, result,
                   l_pc, message, remove_these, puts, sets, removals, appends>>
    /\ was_in_target' = [c \in Callers |->
           \/ was_in_target[c]
           \/ /\ pc[c] # "idle"
              /\ request[handle[c]].name = JStr(a)
              /\ request[handle[c]].target = s]
    /\ UNCHANGED missed_message
    /\ UNCHANGED l_exc
    /\ UNCHANGED outsideWait

\* ------------------------------------------------------------ caller side
\* wait_app_state calls app_wait_event(name, state, True): the Event and the
\* Queue are created, the state kept in the registry is read and, when it is
\* one of the acceptable states, the handle is resolved at once
Call(c, name, state) ==
    /\ pc[c] = "idle"
    /\ nextReq <= MaxRequests
    /\ LET r == nextReq
           states == AcceptableStates(state, TRUE)
           current_state == JStr(applications[name].properties.state)
       IN  /\ nextReq' = r + 1
           /\ handle' = [handle EXCEPT ![c] = r]
           /\ result' = [result EXCEPT ![c] = NoResult]
           /\ request' = [request EXCEPT ![r] =
                            [name |-> JStr(name), state |-> JList(states),
                             target |-> state]]
           /\ IF InList(current_state, states)
              THEN /\ resolved_state' = [resolved_state EXCEPT ![r] = <<current_state>>]
                   /\ wait_event' = [wait_event EXCEPT ![r] = TRUE]
                   /\ puts' = [puts EXCEPT ![r] = @ + 1]
                   /\ sets' = [sets EXCEPT ![r] = @ + 1]
                   /\ pc' = [pc EXCEPT ![c] = "waiting"]
              ELSE /\ pc' = [pc EXCEPT ![c] = "registering"]
                   /\ UNCHANGED <<resolved_state, wait_event, puts, sets>>
    /\ UNCHANGED <<applications, appState, app_wait_list, app_wait_list_lock,
                   l_pc, message, remove_these, removals, appends>>
    /\ missed_message' = [missed_message EXCEPT ![c] = FALSE]
    /\ was_in_target' = [was_in_target EXCEPT ![c] = (appState[name] = state)]
    /\ UNCHANGED l_exc
    /\ UNCHANGED outsideWait

\* with self.app_wait_list_lock:  (entering)
AcquireForAppend(c) ==
    /\ pc[c] = "registering"
    /\ app_wait_list_lock = Free
    /\ app_wait_list_lock' = CallerThread(c)
    /\ pc' = [pc EXCEPT ![c] = "locked"]
    /\ UNCHANGED <<applications, appState, app_wait_list, request, wait_event,
                   resolved_state, nextReq, handle, result, l_pc, message,
                   remove_these, puts, sets, removals, appends>>
    /\ UNCHANGED <<missed_message, was_in_target>>
    /\ UNCHANGED l_exc
    /\ UNCHANGED outsideWait

\* AppendRequest that returns to the caller without releasing the lock
AppendRequest_KeepsLock(c) ==
    /\ pc[c] = "locked"
    /\ app_wait_list' = Append(app_wait_list, handle[c])
    /\ appends' = [appends EXCEPT ![handle[c]] = @ + 1]
    /\ pc' = [pc EXCEPT ![c] = "waiting"]
    /\ UNCHANGED <<applications, appState, app_wait_list_lock, request,
                   wait_event, resolved_state, nextReq, handle, result, l_pc,
                   message, remove_these, puts, sets, removals>>
    /\ UNCHANGED <<missed_message, was_in_target>>
    /\ UNCHANGED l_exc
    /\ UNCHANGED outsideWait

\* AppendRequest that, under the lock, resolves the handle instead of appending
\* it when a message for it was handled since the state was read
AppendRequest_ResolvesMissed(c) ==
    /\ pc[c] = "locked"
    /\ IF missed_message[c]
       THEN /\ wait_event' = [wait_event EXCEPT ![handle[c]] = TRUE]
            /\ sets' = [sets EXCEPT ![handle[c]] = @ + 1]
            /\ UNCHANGED <<app_wait_list, appends>>
       ELSE /\ app_wait_list' = Append(app_wait_list, handle[c])
            /\ appends' = [appends EXCEPT ![handle[c]] = @ + 1]
            /\ UNCHANGED <<wait_event, sets>>
    /\ app_wait_list_lock' = Free
    /\ pc' = [pc EXCEPT ![c] = "waiting"]
    /\ UNCHANGED <<applications, appState, request, resolved_state,
                   nextReq, handle, result, l_pc, message, remove_these,
                   puts, removals>>
    /\ UNCHANGED <<missed_message, was_in_target>>
    /\ UNCHANGED l_exc
    /\ UNCHANGED outsideWait

\* self.app_wait_list.append({...}) and leaving the with block
AppendRequest(c) ==
    /\ pc[c] = "locked"
    /\ app_wait_list' = Append(app_wait_list, handle[c])
    /\ appends' = [appends EXCEPT ![handle[c]] = @ + 1]
    /\ app_wait_list_lock' = Free
    /\ pc' = [pc EXCEPT ![c] = "waiting"]
    /\ UNCHANGED <<applications, appState, request, wait_event, resolved_state,
                   nextReq, handle, result, l_pc, message, remove_these,
                   puts, sets, removals>>
    /\ UNCHANGED <<missed_message, was_in_target>>
    /\ UNCHANGED l_exc
    /\ UNCHANGED outsideWait

\* WaitTimeout that also withdraws the request from the pending list
WaitTimeout_Withdraws(c) ==
    /\ pc[c] = "waiting"
    /\ ~wait_event[handle[c]]
    /\ result' = [result EXCEPT ![c] =
                    TimeoutError(request[handle[c]].name.v[1],
                                 request[handle[c]].target)]
    /\ pc' = [pc EXCEPT ![c] = "idle"]
    /\ app_wait_list' = SelectSeq(app_wait_list, LAMBDA r : r # handle[c])
    /\ UNCHANGED <<applications, appState, app_wait_list_lock,
                   request, wait_event, resolved_state, nextReq, handle, l_pc,
                   message, remove_these, puts, sets, removals, appends>>
    /\ missed_message' = [missed_message EXCEPT ![c] = FALSE]
    /\ was_in_target' = [was_in_target EXCEPT ![c] = FALSE]
    /\ UNCHANGED l_exc
    /\ UNCHANGED outsideWait

\* wait_event.wait(timeout) returns False: raise TimeoutError
WaitTimeout(c) ==
    /\ pc[c] = "waiting"
    /\ ~wait_event[handle[c]]
    /\ result' = [result EXCEPT ![c] =
                    TimeoutError(request[handle[c]].name.v[1],
                                 request[handle[c]].target)]
    /\ pc' = [pc EXCEPT ![c] = "idle"]
    /\ UNCHANGED <<applications, appState, app_wait_list, app_wait_list_lock,
                   request, wait_event, resolved_state, nextReq, handle, l_pc,
                   message, remove_these, puts, sets, removals, appends>>
    /\ missed_message' = [missed_message EXCEPT ![c] = FALSE]
    /\ was_in_target' = [was_in_target EXCEPT ![c] = FALSE]
    /\ UNCHANGED l_exc
    /\ UNCHANGED outsideWait

\* wait_event.wait(timeout) returns True: the resolved state is inspected
WaitReturn(c) ==
    /\ pc[c] = "waiting"
    /\ wait_event[handle[c]]
    /\ LET r == handle[c]
           name == request[r].name.v[1]
           state == request[r].target
       IN  IF resolved_state[r] = <<>>
           THEN /\ result' = [result EXCEPT ![c] = Success(name, state)]
                /\ UNCHANGED resolved_state
           ELSE LET current_state == Head(resolved_state[r])
                IN  /\ resolved_state' = [resolved_state EXCEPT ![r] = Tail(@)]
                    /\ result' = [result EXCEPT ![c] =
                                    IF current_state # JStr(state)
                                    THEN ApplicationError(name, state, current_state)
                                    ELSE Success(name, state)]
    /\ pc' = [pc EXCEPT ![c] = "idle"]
    /\ UNCHANGED <<applications, appState, app_wait_list, app_wait_list_lock,
                   request, wait_event, nextReq, handle, l_pc, message,
                   remove_these, puts, sets, removals, appends>>
    /\ missed_message' = [missed_message EXCEPT ![c] = FALSE]
    /\ was_in_target' = [was_in_target EXCEPT ![c] = FALSE]
    /\ UNCHANGED l_exc
    /\ UNCHANGED outsideWait

\* ---------------------------------------------------------- listener side
\* AppMessageUndecodable that decodes under the lock and never releases it
AppMessageUndecodable_HoldsLock(m) ==
    /\ l_pc = "idle"
    /\ ~m.ok
    /\ app_wait_list_lock = Free
    /\ app_wait_list_lock' = ListenerThread
    /\ l_exc' = "JSONDecodeError"
    /\ UNCHANGED <<applications, appState, app_wait_list,
                   request, wait_event, resolved_state, nextReq, pc, handle,
                   result, l_pc, message, remove_these, puts, sets, removals,
                   appends, missed_message, was_in_target>>
    /\ UNCHANGED outsideWait

\* json.loads(message) raises: the message is logged and dropped
AppMessageUndecodable(m) ==
    /\ l_pc = "idle"
    /\ ~m.ok
    /\ l_exc' = "JSONDecodeError"
    /\ UNCHANGED <<applications, appState, app_wait_list, app_wait_list_lock,
                   request, wait_event, resolved_state, nextReq, pc, handle,
                   result, l_pc, message, remove_these, puts, sets, removals,
                   appends, missed_message, was_in_target>>
    /\ UNCHANGED outsideWait

\* the test of the scan loop, on the dict  app  of a request
Matches(app, msg) == app.name = msg.name /\ app.state = msg.value

\* whether evaluating that test raises KeyError: message['name'] is always
\* evaluated, message['value'] only when the names are equal
TestRaises(app, msg) ==
    \/ msg.name = NoKey
    \/ app.name = msg.name /\ msg.value = NoKey

InSeq(x, q) == \E i \in 1..Len(q) : q[i] = x

\* the requests of the list, in list order, that satisfy the test
RECURSIVE Matched(_, _)
Matched(list, msg) ==
    IF list = <<>> THEN <<>>
    ELSE IF Matches(request[Head(list)], msg)
         THEN <<Head(list)>> \o Matched(Tail(list), msg)
         ELSE Matched(Tail(list), msg)

\* json.loads(message), entering  with self.app_wait_list_lock:  and the loop
\* for app in self.app_wait_list.  No other thread reads or writes the list
\* or a listed request's queue while the lock is held, so the loop is one step.
AppMessageScan(m) ==
    /\ l_pc = "idle"
    /\ m.ok
    /\ app_wait_list_lock = Free
    /\ IF \E i \in 1..Len(app_wait_list) : TestRaises(request[app_wait_list[i]], m)
       THEN \* KeyError leaves the with block, which frees the lock again
            /\ l_exc' = "KeyError"
            /\ UNCHANGED <<app_wait_list_lock, l_pc, message, remove_these,
                           resolved_state, wait_event, puts, sets,
                           missed_message, was_in_target>>
       ELSE LET hit == Matched(app_wait_list, m)
            IN  /\ app_wait_list_lock' = ListenerThread
                /\ l_exc' = "none"
                /\ l_pc' = "remove"
                /\ message' = m
                /\ remove_these' = hit
                /\ resolved_state' = [r \in Requests |->
                       IF InSeq(r, hit) THEN Append(resolved_state[r], m.value)
                       ELSE resolved_state[r]]
                /\ wait_event' = [r \in Requests |-> InSeq(r, hit) \/ wait_event[r]]
                /\ puts' = [r \in Requests |->
                       IF InSeq(r, hit) THEN puts[r] + 1 ELSE puts[r]]
                /\ sets' = [r \in Requests |->
                       IF InSeq(r, hit) THEN sets[r] + 1 ELSE sets[r]]
                /\ missed_message' = [c \in Callers |->
                       \/ missed_message[c]
                       \/ /\ pc[c] = "registering"
                          /\ request[handle[c]].name = m.name
                          /\ InList(m.value, request[handle[c]].state.v)]
                /\ was_in_target' = [c \in Callers |->
                       \/ was_in_target[c]
                       \/ /\ pc[c] # "idle"
                          /\ request[handle[c]].name = m.name
                          /\ m.value = JStr(request[handle[c]].target)]
    /\ UNCHANGED <<applications, appState, app_wait_list, request, nextReq, pc,
                   handle, result, removals, appends>>
    /\ UNCHANGED outsideWait

\* list.remove(item): the first element equal to item is taken out
RECURSIVE ListRemove(_, _)
ListRemove(list, item) ==
    IF list = <<>> THEN <<>>
    ELSE IF Head(list) = item THEN Tail(list)
    ELSE <<Head(list)>> \o ListRemove(Tail(list), item)

\* for item in remove_these: self.app_wait_list.remove(item)
RECURSIVE RemoveAll(_, _)
RemoveAll(list, items) ==
    IF items = <<>> THEN list
    ELSE RemoveAll(ListRemove(list, Head(items)), Tail(items))

\* AppMessageRemove with the removal loop left out
AppMessageRemove_KeepsEntries ==
    /\ l_pc = "remove"
    /\ app_wait_list_lock' = Free
    /\ l_pc' = "idle"
    /\ message' = NoMessage
    /\ remove_these' = <<>>
    /\ UNCHANGED <<applications, appState, app_wait_list, request, wait_event,
                   resolved_state, nextReq, pc, handle, result, puts, sets,
                   removals, appends>>
    /\ UNCHANGED <<missed_message, was_in_target>>
    /\ UNCHANGED l_exc
    /\ UNCHANGED outsideWait

\* AppMessageRemove that takes only the first resolved request out of the list
AppMessageRemove_FirstOnly ==
    /\ l_pc = "remove"
    /\ LET first == IF remove_these = <<>> THEN <<>> ELSE <<Head(remove_these)>>
       IN  /\ app_wait_list' = RemoveAll(app_wait_list, first)
           /\ removals' = [r \in Requests |->
                             IF InSeq(r, first) THEN removals[r] + 1
                             ELSE removals[r]]
    /\ app_wait_list_lock' = Free
    /\ l_pc' = "idle"
    /\ message' = NoMessage
    /\ remove_these' = <<>>
    /\ UNCHANGED <<applications, appState, request, wait_event, resolved_state,
                   nextReq, pc, handle, result, puts, sets, appends>>
    /\ UNCHANGED <<missed_message, was_in_target>>
    /\ UNCHANGED l_exc
    /\ UNCHANGED outsideWait

\* the removal loop, and leaving the with block
AppMessageRemove ==
    /\ l_pc = "remove"
    /\ app_wait_list' = RemoveAll(app_wait_list, remove_these)
    /\ removals' = [r \in Requests |->
                      IF InSeq(r, remove_these) THEN removals[r] + 1
                      ELSE removals[r]]
    /\ app_wait_list_lock' = Free
    /\ l_pc' = "idle"
    /\ message' = NoMessage
    /\ remove_these' = <<>>
    /\ UNCHANGED <<applications, appState, request, wait_event, resolved_state,
                   nextReq, pc, handle, result, puts, sets, appends>>
    /\ UNCHANGED <<missed_message, was_in_target>>
    /\ UNCHANGED l_exc
    /\ UNCHANGED outsideWait

WaitNext ==
    \/ \E a \in Apps, s \in AppStates : RemoteAppChange(a, s)
    \/ \E c \in Callers, a \in Apps, s \in Targets : Call(c, a, s)
    \/ \E c \in Callers : AcquireForAppend(c)
    \/ \E c \in Callers : AppendRequest(c)
    \/ \E c \in Callers : WaitTimeout(c)
    \/ \E c \in Callers : WaitReturn(c)
    \/ \E m \in AppMessages : AppMessageUndecodable(m)
    \/ \E m \in AppMessages : AppMessageScan(m)
    \/ AppMessageRemove

\* ================================================== machine signal tracker
\* bound on the machine-state messages waiting in the feed
MaxFeed == 2

MachineStates == {"Ready", "Closing", "Running"}

\* messages of the machine-state feed: text that json.loads rejects, an object
\* without the key state, or {"state": s}
BadStatusMessage == [ok |-> FALSE, state |-> NoKey]
StatusWithoutState == [ok |-> TRUE, state |-> NoKey]
StatusMessage(s) == [ok |-> TRUE, state |-> JStr(s)]

MachineInit ==
    /\ machineState \in MachineStates
    /\ statusFeed = <<>>
    /\ wait_ready_event = FALSE
    /\ wait_not_ready_event = FALSE
    /\ wait_closing_event = FALSE
    /\ has_callback \in BOOLEAN
    /\ s_pc = "idle"
    /\ s_msg = BadStatusMessage
    /\ s_exc = "none"
    /\ last_processed = NoKey
    /\ m_pc = "idle"
    /\ m_op = "none"
    /\ m_snap = "none"
    /\ m_ret = "none"
    /\ m_during = {}

\* the machine changes state and reports it on the feed
MachineChange(s) ==
    /\ s # machineState
    /\ Len(statusFeed) < MaxFeed
    /\ machineState' = s
    /\ statusFeed' = Append(statusFeed, StatusMessage(s))
    /\ m_during' = IF m_pc \in {"idle", "done"} THEN m_during
                   ELSE m_during \cup {s}
    /\ UNCHANGED <<wait_ready_event, wait_not_ready_event, wait_closing_event,
                   has_callback, s_pc, s_msg, last_processed, m_pc, m_op,
                   m_snap, m_ret>>
    /\ UNCHANGED s_exc
    /\ UNCHANGED outsideMachine

\* the feed carries a message that is no {"state": ...} object
FeedMalformed(m) ==
    /\ Len(statusFeed) < MaxFeed
    /\ statusFeed' = Append(statusFeed, m)
    /\ UNCHANGED <<machineState, wait_ready_event, wait_not_ready_event,
                   wait_closing_event, has_callback, s_pc, s_msg,
                   last_processed, m_pc, m_op, m_snap, m_ret>>
    /\ UNCHANGED m_during
    /\ UNCHANGED s_exc
    /\ UNCHANGED outsideMachine

\* the exception on_status_message catches for a message: json.loads comes
\* first, then the callback, then message['state']
Raised(msg, callback_raises) ==
    IF ~msg.ok THEN "JSONDecodeError"
    ELSE IF callback_raises THEN "callback"
    ELSE IF msg.state = NoKey THEN "KeyError"
    ELSE "none"

\* StatusMessageBegin whose except branch clears the ready signal
StatusMessageBegin_ClearsOnFailure(callback_raises) ==
    /\ s_pc = "idle"
    /\ statusFeed # <<>>
    /\ callback_raises => has_callback
    /\ statusFeed' = Tail(statusFeed)
    /\ LET msg == Head(statusFeed)
       IN  IF ~msg.ok \/ callback_raises \/ msg.state = NoKey
           THEN /\ wait_ready_event' = FALSE
                /\ s_exc' = Raised(msg, callback_raises)
                /\ UNCHANGED <<s_pc, s_msg>>
           ELSE /\ wait_ready_event' = (msg.state = JStr("Ready"))
                /\ s_pc' = "not_ready"
                /\ s_msg' = msg
                /\ s_exc' = "none"
    /\ UNCHANGED <<machineState, wait_not_ready_event, wait_closing_event,
                   has_callback, last_processed, m_pc, m_op, m_snap, m_ret>>
    /\ UNCHANGED m_during
    /\ UNCHANGED outsideMachine

\* on_status_message up to the first signal it writes: json.loads, the
\* callback, message['state'] and wait_ready_event.set() or .clear().  An
\* exception of any of the first three ends the handler in its except branch.
StatusMessageBegin(callback_raises) ==
    /\ s_pc = "idle"
    /\ statusFeed # <<>>
    /\ callback_raises => has_callback
    /\ statusFeed' = Tail(statusFeed)
    /\ LET msg == Head(statusFeed)
       IN  IF ~msg.ok \/ callback_raises \/ msg.state = NoKey
           THEN /\ s_exc' = Raised(msg, callback_raises)
                /\ UNCHANGED <<wait_ready_event, s_pc, s_msg>>
           ELSE /\ wait_ready_event' = (msg.state = JStr("Ready"))
                /\ s_pc' = "not_ready"
                /\ s_msg' = msg
                /\ s_exc' = "none"
    /\ UNCHANGED <<machineState, wait_not_ready_event, wait_closing_event,
                   has_callback, last_processed, m_pc, m_op, m_snap, m_ret>>
    /\ UNCHANGED m_during
    /\ UNCHANGED outsideMachine

\* wait_not_ready_event.clear() after Ready, .set() after any other state
StatusMessageNotReady ==
    /\ s_pc = "not_ready"
    /\ wait_not_ready_event' = (s_msg.state # JStr("Ready"))
    /\ s_pc' = "closing"
    /\ UNCHANGED <<machineState, statusFeed, wait_ready_event,
                   wait_closing_event, has_callback, s_msg, last_processed,
                   m_pc, m_op, m_snap, m_ret>>
    /\ UNCHANGED m_during
    /\ UNCHANGED s_exc
    /\ UNCHANGED outsideMachine

\* StatusMessageClosing that only ever sets the closing signal
StatusMessageClosing_Accumulates ==
    /\ s_pc = "closing"
    /\ wait_closing_event' =
          (wait_closing_event \/ s_msg.state \in {JStr("Closing"), JStr("Ready")})
    /\ s_pc' = "idle"
    /\ last_processed' = s_msg.state
    /\ s_msg' = BadStatusMessage
    /\ UNCHANGED <<machineState, statusFeed, wait_ready_event,
                   wait_not_ready_event, has_callback, m_pc, m_op, m_snap, m_ret>>
    /\ UNCHANGED m_during
    /\ UNCHANGED s_exc
    /\ UNCHANGED outsideMachine

\* the second if/else: wait_closing_event.set() or .clear(); the handler ends
StatusMessageClosing ==
    /\ s_pc = "closing"
    /\ wait_closing_event' = (s_msg.state \in {JStr("Closing"), JStr("Ready")})
    /\ s_pc' = "idle"
    /\ last_processed' = s_msg.state
    /\ s_msg' = BadStatusMessage
    /\ UNCHANGED <<machineState, statusFeed, wait_ready_event,
                   wait_not_ready_event, has_callback, m_pc, m_op, m_snap, m_ret>>
    /\ UNCHANGED m_during
    /\ UNCHANGED s_exc
    /\ UNCHANGED outsideMachine

MachineOps == {"wait_ready", "wait_closing", "wait_not_ready"}

\* the signal an operation blocks on
Signal(op) ==
    CASE op = "wait_ready" -> wait_ready_event
      [] op = "wait_closing" -> wait_closing_event
      [] op = "wait_not_ready" -> wait_not_ready_event
      [] OTHER -> FALSE

\* a caller enters wait_ready, wait_closing or wait_not_ready
MachineCall(op) ==
    /\ m_pc \in {"idle", "done"}
    /\ m_pc' = "read"
    /\ m_op' = op
    /\ m_snap' = "none"
    /\ m_ret' = "none"
    /\ m_during' = {machineState}
    /\ UNCHANGED <<machineState, statusFeed, wait_ready_event,
                   wait_not_ready_event, wait_closing_event, has_callback,
                   s_pc, s_msg, last_processed>>
    /\ UNCHANGED s_exc
    /\ UNCHANGED outsideMachine

\* the first read of self.state: ready_for_testing in wait_ready and
\* wait_not_ready, the test  self.state == 'Closing'  in test_box_closing
MachineFirstRead ==
    /\ m_pc = "read"
    /\ m_snap' = machineState
    /\ CASE m_op = "wait_ready" ->
              IF machineState = "Ready"
              THEN m_pc' = "done" /\ m_ret' = "True"
              ELSE m_pc' = "blocked" /\ m_ret' = m_ret
         [] m_op = "wait_not_ready" ->
              IF ~(machineState = "Ready")
              THEN m_pc' = "done" /\ m_ret' = "True"
              ELSE m_pc' = "blocked" /\ m_ret' = m_ret
         [] OTHER ->
              IF machineState = "Closing"
              THEN m_pc' = "done" /\ m_ret' = "True"
              ELSE m_pc' = "read_again" /\ m_ret' = m_ret
    /\ UNCHANGED <<machineState, statusFeed, wait_ready_event,
                   wait_not_ready_event, wait_closing_event, has_callback,
                   s_pc, s_msg, last_processed, m_op>>
    /\ UNCHANGED m_during
    /\ UNCHANGED s_exc
    /\ UNCHANGED outsideMachine

\* test_box_closing: the second read of self.state,  or self.ready_for_testing
MachineSecondRead ==
    /\ m_pc = "read_again"
    /\ IF machineState = "Ready"
       THEN m_pc' = "done" /\ m_ret' = "True"
       ELSE m_pc' = "blocked" /\ m_ret' = m_ret
    /\ UNCHANGED <<machineState, statusFeed, wait_ready_event,
                   wait_not_ready_event, wait_closing_event, has_callback,
                   s_pc, s_msg, last_processed, m_op, m_snap>>
    /\ UNCHANGED m_during
    /\ UNCHANGED s_exc
    /\ UNCHANGED outsideMachine

\* event.wait(timeout) returns True: the signal is set
MachineWake ==
    /\ m_pc = "blocked"
    /\ Signal(m_op)
    /\ m_pc' = "done"
    /\ m_ret' = "True"
    /\ UNCHANGED <<machineState, statusFeed, wait_ready_event,
                   wait_not_ready_event, wait_closing_event, has_callback,
                   s_pc, s_msg, last_processed, m_op, m_snap>>
    /\ UNCHANGED m_during
    /\ UNCHANGED s_exc
    /\ UNCHANGED outsideMachine

\* event.wait(timeout) returns False: the timeout elapsed with the signal clear
MachineTimeout ==
    /\ m_pc = "blocked"
    /\ ~Signal(m_op)
    /\ m_pc' = "done"
    /\ m_ret' = "False"
    /\ UNCHANGED <<machineState, statusFeed, wait_ready_event,
                   wait_not_ready_event, wait_closing_event, has_callback,
                   s_pc, s_msg, last_processed, m_op, m_snap>>
    /\ UNCHANGED m_during
    /\ UNCHANGED s_exc
    /\ UNCHANGED outsideMachine

MachineNext ==
    \/ \E s \in MachineStates : MachineChange(s)
    \/ \E m \in {BadStatusMessage, StatusWithoutState} : FeedMalformed(m)
    \/ \E raises \in BOOLEAN : StatusMessageBegin(raises)
    \/ StatusMessageNotReady
    \/ StatusMessageClosing
    \/ \E op \in MachineOps : MachineCall(op)
    \/ MachineFirstRead
    \/ MachineSecondRead
    \/ MachineWake
    \/ MachineTimeout

\* ======================================================== action invocation
\* bound on the length of an action's field list
MaxFields == 2

FieldNames == {"mode", "speed"}
FieldValues == {"auto", "manual"}

\* a field of action['fields']: with or without the key value
Fields ==
    [name : FieldNames, has_value : {TRUE}, value : FieldValues] \cup
    [name : FieldNames, has_value : {FALSE}, value : {""}]

RECURSIVE SeqsUpTo(_, _)
SeqsUpTo(S, n) ==
    IF n = 0 THEN {<<>>}
    ELSE LET shorter == SeqsUpTo(S, n - 1)
         IN  shorter \cup {Append(q, x) : q \in {t \in shorter : Len(t) = n - 1}, x \in S}

\* a dict with string keys, as a function on its set of keys
EmptyDict == [k \in {} |-> ""]
DictPut(d, key, val) ==
    [k \in DOMAIN d \cup {key} |-> IF k = key THEN val ELSE d[k]]
\* d.update(other)
DictUpdate(d, other) ==
    [k \in DOMAIN d \cup DOMAIN other |-> IF k \in DOMAIN other THEN other[k] ELSE d[k]]
Dicts(keys, values) == UNION {[ks -> values] : ks \in SUBSET keys}

\* the loop  for field in action['fields']: if 'value' in field: ...
RECURSIVE StaticFields(_)
StaticFields(fields) ==
    IF fields = <<>> THEN EmptyDict
    ELSE LET field == fields[Len(fields)]
             before == StaticFields(SubSeq(fields, 1, Len(fields) - 1))
         IN  IF field.has_value THEN DictPut(before, field.name, field.value)
             ELSE before

NothingSent == [verb |-> "none", json |-> EmptyDict]

ActionInit ==
    /\ action \in [method : {"POST", "GET"}, fields : SeqsUpTo(Fields, MaxFields)]
    /\ built = action
    /\ sent = NothingSent
    /\ kwargs = EmptyDict
    /\ a_status = "none"

\* post_func that writes the caller's values into the action's own fields
PostFunc_KeepsOverrides(kw, status_ok) ==
    /\ action.method = "POST"
    /\ LET fields == DictUpdate(StaticFields(action.fields), kw)
       IN  sent' = [verb |-> "POST", json |-> fields]
    /\ action' = [action EXCEPT !.fields =
                    [i \in 1..Len(action.fields) |->
                       IF action.fields[i].name \in DOMAIN kw
                       THEN [name |-> action.fields[i].name, has_value |-> TRUE,
                             value |-> kw[action.fields[i].name]]
                       ELSE action.fields[i]]]
    /\ kwargs' = kw
    /\ a_status' = IF status_ok THEN "returned" ELSE "HTTPError"
    /\ UNCHANGED built
    /\ UNCHANGED outsideAction

\* post_func(**kwargs): the body is built from the static fields and the
\* keyword arguments, posted, and raise_for_status() is called
PostFunc(kw, status_ok) ==
    /\ action.method = "POST"
    /\ LET fields == DictUpdate(StaticFields(action.fields), kw)
       IN  sent' = [verb |-> "POST", json |-> fields]
    /\ kwargs' = kw
    /\ a_status' = IF status_ok THEN "returned" ELSE "HTTPError"
    /\ UNCHANGED <<action, built>>
    /\ UNCHANGED outsideAction

\* get_func(): a GET without body, then raise_for_status()
GetFunc(status_ok) ==
    /\ action.method # "POST"
    /\ sent' = [verb |-> "GET", json |-> EmptyDict]
    /\ kwargs' = EmptyDict
    /\ a_status' = IF status_ok THEN "returned" ELSE "HTTPError"
    /\ UNCHANGED <<action, built>>
    /\ UNCHANGED outsideAction

ActionNext ==
    \/ \E kw \in Dicts(FieldNames, FieldValues), ok \in BOOLEAN : PostFunc(kw, ok)
    \/ \E ok \in BOOLEAN : GetFunc(ok)

\* ================================================ construction of the registry
\* bound on the number of entities of GET /api/applications
MaxEntities == 3

EntityNames == {"A", "B"}
Aliases == {"", "B", "X"}
Hrefs == {"h1", "h2", "gone"}

\* an entity: properties.name, properties.alias (the key may be absent) and href
Entities ==
    [name : EntityNames, has_alias : {TRUE}, alias : Aliases, href : Hrefs] \cup
    [name : EntityNames, has_alias : {FALSE}, alias : {""}, href : Hrefs]

\* what GET href returns: no document for "gone" (the request or .json() raises)
DetailDocument(href) ==
    CASE href = "h1" ->
           [ok |-> TRUE,
            actions |-> <<[name |-> "start", method |-> "POST"],
                          [name |-> "stop", method |-> "POST"]>>,
            has_blocked |-> TRUE,
            blocked_actions |-> <<[name |-> "stop", method |-> "GET"]>>]
      [] href = "h2" ->
           [ok |-> TRUE,
            actions |-> <<[name |-> "reset", method |-> "GET"]>>,
            has_blocked |-> FALSE,
            blocked_actions |-> <<>>]
      [] OTHER ->
           [ok |-> FALSE, actions |-> <<>>, has_blocked |-> FALSE,
            blocked_actions |-> <<>>]

\* actions[action['name']] = self._get_fields(action), over a list of actions;
\* the callable is kept as the method it was built for
RECURSIVE AddActions(_, _)
AddActions(actions, list) ==
    IF list = <<>> THEN actions
    ELSE AddActions(DictPut(actions, Head(list).name, Head(list).method), Tail(list))

\* _get_actions(entity): when the fetch raises, entity_details is unbound and
\* the first use of it raises UnboundLocalError out of _get_actions
GetActions(entity) ==
    LET entity_details == DetailDocument(entity.href)
    IN  IF ~entity_details.ok
        THEN [raised |-> TRUE, actions |-> EmptyDict]
        ELSE [raised |-> FALSE,
              actions |->
                 LET actions == AddActions(EmptyDict, entity_details.actions)
                 IN  IF entity_details.has_blocked
                     THEN AddActions(actions, entity_details.blocked_actions)
                     ELSE actions]

Properties(entity) ==
    [name |-> entity.name, has_alias |-> entity.has_alias, alias |-> entity.alias,
     state |-> "Idle"]

RegistryEntry(entity) ==
    [actions |-> GetActions(entity).actions, properties |-> Properties(entity)]

RegistryInit ==
    /\ applications = EmptyDict
    /\ entities \in SeqsUpTo(Entities, MaxEntities)
    /\ r_idx = 1
    /\ r_status = "running"

\* AssignedKey that prefers the alias whenever the entity carries one
AssignedKey_AliasFirst(entity) ==
    IF entity.has_alias /\ entity.alias # "" THEN entity.alias
    ELSE IF entity.name \in DOMAIN applications THEN ""
    ELSE entity.name

\* the key one pass of the loop assigns, "" standing for none, and whether
\* the pass raises (KeyError for an absent alias, or out of _get_actions)
AssignedKey(entity) ==
    IF entity.name \in DOMAIN applications
    THEN IF entity.has_alias /\ entity.alias # "" THEN entity.alias ELSE ""
    ELSE entity.name

PassRaises(entity) ==
    \/ entity.name \in DOMAIN applications /\ ~entity.has_alias
    \/ AssignedKey(entity) # "" /\ GetActions(entity).raised

\* one pass of  for entity in entities  in __init__
ResolveEntity ==
    /\ r_status = "running"
    /\ r_idx <= Len(entities)
    /\ LET entity == entities[r_idx]
       IN  IF PassRaises(entity)
           THEN /\ r_status' = "failed"
                /\ UNCHANGED <<applications, r_idx>>
           ELSE /\ r_idx' = r_idx + 1
                /\ r_status' = r_status
                /\ applications' =
                      IF AssignedKey(entity) = "" THEN applications
                      ELSE DictPut(applications, AssignedKey(entity),
                                   RegistryEntry(entity))
    /\ UNCHANGED entities
    /\ UNCHANGED outsideRegistry

\* the loop is over: the registry is complete
ResolveDone ==
    /\ r_status = "running"
    /\ r_idx > Len(entities)
    /\ r_status' = "done"
    /\ UNCHANGED <<applications, entities, r_idx>>
    /\ UNCHANGED outsideRegistry

RegistryNext ==
    \/ ResolveEntity
    \/ ResolveDone

\* ========================================================== specifications
\* each component at rest, for the specifications that do not exercise it
MachineIdle ==
    /\ MachineInit
    /\ machineState = "Running"
    /\ has_callback = FALSE

WaitOwnInit ==
    /\ appState = [a \in Apps |-> applications[a].properties.state]
    /\ app_wait_list = <<>>
    /\ app_wait_list_lock = Free
    /\ request = [r \in Requests |-> NoRequest]
    /\ wait_event = [r \in Requests |-> FALSE]
    /\ resolved_state = [r \in Requests |-> <<>>]
    /\ nextReq = 1
    /\ pc = [c \in Callers |-> "idle"]
    /\ handle = [c \in Callers |-> 0]
    /\ result = [c \in Callers |-> NoResult]
    /\ l_pc = "idle"
    /\ message = NoMessage
    /\ remove_these = <<>>
    /\ l_exc = "none"
    /\ puts = [r \in Requests |-> 0]
    /\ sets = [r \in Requests |-> 0]
    /\ removals = [r \in Requests |-> 0]
    /\ appends = [r \in Requests |-> 0]
    /\ missed_message = [c \in Callers |-> FALSE]
    /\ was_in_target = [c \in Callers |-> FALSE]

WaitIdle ==
    /\ applications = [a \in Apps |-> Entry(a, "Idle")]
    /\ WaitOwnInit

ActionIdle ==
    /\ action = [method |-> "GET", fields |-> <<>>]
    /\ built = action
    /\ sent = NothingSent
    /\ kwargs = EmptyDict
    /\ a_status = "none"

RegistryIdle ==
    /\ entities = <<>>
    /\ r_idx = 1
    /\ r_status = "done"

\* the application wait engine, after connect
WaitInit ==
    /\ applications \in {[a \in Apps |-> Entry(a, f[a])] : f \in [Apps -> AppStates]}
    /\ WaitOwnInit

Init == WaitInit /\ MachineIdle /\ ActionIdle /\ RegistryIdle
Next == WaitNext
Spec == Init /\ [][Next]_vars

\* the listener thread runs a handler it has begun to its end
SpecFair == Init /\ [][Next]_vars /\ WF_vars(AppMessageRemove)

\* the machine signal tracker
InitMachine == MachineInit /\ WaitIdle /\ ActionIdle /\ RegistryIdle
NextMachine == MachineNext
SpecMachine == InitMachine /\ [][NextMachine]_vars

\* the two listener threads side by side, while one caller registers a request
InitFeeds == WaitIdle /\ MachineIdle /\ ActionIdle /\ RegistryIdle
NextFeeds ==
    \/ \E a \in Apps, s \in Targets : Call(1, a, s)
    \/ \E c \in Callers : AcquireForAppend(c)
    \/ \E c \in Callers : AppendRequest(c)
    \/ \E m \in AppMessages : AppMessageUndecodable(m)
    \/ \E m \in AppMessages : AppMessageScan(m)
    \/ AppMessageRemove
    \/ \E s \in MachineStates : MachineChange(s)
    \/ \E m \in {BadStatusMessage, StatusWithoutState} : FeedMalformed(m)
    \/ \E raises \in BOOLEAN : StatusMessageBegin(raises)
    \/ StatusMessageNotReady
    \/ StatusMessageClosing
SpecFeeds == InitFeeds /\ [][NextFeeds]_vars

\* invocation of one action of the registry
InitAction == ActionInit /\ WaitIdle /\ MachineIdle /\ RegistryIdle
NextAction == ActionNext
SpecAction == InitAction /\ [][NextAction]_vars

\* construction of the registry in __init__: no caller exists yet
InitRegistry ==
    /\ RegistryInit
    /\ appState = [a \in Apps |-> "Idle"]
    /\ app_wait_list = <<>>
    /\ app_wait_list_lock = Free
    /\ request = [r \in Requests |-> NoRequest]
    /\ wait_event = [r \in Requests |-> FALSE]
    /\ resolved_state = [r \in Requests |-> <<>>]
    /\ nextReq = 1
    /\ pc = [c \in Callers |-> "idle"]
    /\ handle = [c \in Callers |-> 0]
    /\ result = [c \in Callers |-> NoResult]
    /\ l_pc = "idle"
    /\ message = NoMessage
    /\ remove_these = <<>>
    /\ l_exc = "none"
    /\ puts = [r \in Requests |-> 0]
    /\ sets = [r \in Requests |-> 0]
    /\ removals = [r \in Requests |-> 0]
    /\ appends = [r \in Requests |-> 0]
    /\ missed_message = [c \in Callers |-> FALSE]
    /\ was_in_target = [c \in Callers |-> FALSE]
    /\ MachineIdle
    /\ ActionIdle
NextRegistry == RegistryNext
SpecRegistry == InitRegistry /\ [][NextRegistry]_vars

\* ===================================================== application wait engine
\* the request a caller holds, and whether a request is in the pending list
Pending(r) == InSeq(r, app_wait_list)

\* C1: every request receives at most one value in its result slot and has its
\* completion signal set at most once; a registered request that is resolved
\* has been removed from the pending list exactly once as soon as the listener
\* has left its critical section, and nothing is removed without being resolved.
C1_ResolvedAtMostOnce ==
    \A r \in Requests :
        /\ puts[r] <= 1
        /\ sets[r] <= 1
        /\ removals[r] <= 1
        /\ removals[r] = 1 => wait_event[r] /\ ~Pending(r) /\ appends[r] = 1
        /\ (appends[r] = 1 /\ wait_event[r] /\ l_pc = "idle")
              => removals[r] = 1 /\ ~Pending(r)

\* a registered request was resolved by a message and removed, and the
\* listener is between two messages
C1_Witness ==
    \E r \in Requests :
        /\ appends[r] = 1 /\ puts[r] = 1 /\ sets[r] = 1 /\ removals[r] = 1
        /\ l_pc = "idle"

\* the match the listener is specified to make: equal names, and the value
\* is one of the request's acceptable states
SpecifiedMatch(r, msg) ==
    /\ request[r].name = msg.name
    /\ InList(msg.value, request[r].state.v)

\* C2: when the listener processes a message {name, value}, every pending
\* request with that application name whose acceptable states contain value
\* gets value in its result slot and its completion signal set, and is removed
\* from the pending list when the listener leaves its critical section.
C2_MatchingMessageResolvesAll ==
    [][ /\ (l_pc = "idle" /\ l_pc' = "remove") =>
             \A r \in Requests :
                 (Pending(r) /\ SpecifiedMatch(r, message')) =>
                     /\ wait_event'[r]
                     /\ resolved_state'[r] = Append(resolved_state[r], message'.value)
                     /\ InSeq(r, remove_these')
        /\ (l_pc = "remove" /\ l_pc' = "idle") =>
             \A r \in Requests :
                 (Pending(r) /\ SpecifiedMatch(r, message)) => ~Pending(r)'
      ]_vars

\* C3: a message {name, value} with value an error state different from the
\* target, processed while a wait_app_state call for name is registered and
\* waiting, resolves that call's request with value; and a call that finds a
\* resolved value different from its target fails with ApplicationError naming
\* the application, the target and the value.
C3_ErrorMessageRaisesApplicationError ==
    [][ /\ (l_pc = "idle" /\ l_pc' = "remove") =>
             \A c \in Callers :
                 ( /\ pc[c] = "waiting"
                   /\ Pending(handle[c])
                   /\ request[handle[c]].name = message'.name
                   /\ InList(message'.value, ErrorStates)
                   /\ message'.value # JStr(request[handle[c]].target) ) =>
                     /\ wait_event'[handle[c]]
                     /\ resolved_state'[handle[c]] = <<message'.value>>
        /\ \A c \in Callers :
             ( /\ pc[c] = "waiting" /\ pc'[c] = "idle"
               /\ wait_event[handle[c]]
               /\ resolved_state[handle[c]] # <<>>
               /\ Head(resolved_state[handle[c]]) # JStr(request[handle[c]].target) ) =>
                 result'[c] = ApplicationError(request[handle[c]].name.v[1],
                                               request[handle[c]].target,
                                               Head(resolved_state[handle[c]]))
      ]_vars

\* C4: a wait_app_state call made while the application really is in the
\* target state returns success at once: the handle is resolved in the call,
\* nothing is appended to the pending list and the call waits for no message.
C4_AlreadyInTargetReturnsAtOnce ==
    [][ \A c \in Callers :
          ( /\ pc[c] = "idle" /\ pc'[c] # "idle"
            /\ appState[request'[handle'[c]].name.v[1]] = request'[handle'[c]].target ) =>
              /\ pc'[c] = "waiting"
              /\ wait_event'[handle'[c]]
              /\ resolved_state'[handle'[c]] = <<JStr(request'[handle'[c]].target)>>
              /\ app_wait_list' = app_wait_list
      ]_vars

\* C5: a registered call whose completion signal is not set can time out; a
\* timeout happens only while the signal is not set, raises TimeoutError naming
\* the application and the target state, and leaves the pending list, the lock,
\* every result slot and every completion signal as they were.
C5_TimeoutChangesNothingShared ==
    /\ [](\A c \in Callers :
            (pc[c] = "waiting" /\ ~wait_event[handle[c]]) => ENABLED WaitTimeout(c))
    /\ [][ \A c \in Callers :
             (pc[c] = "waiting" /\ result'[c].type = "TimeoutError") =>
                 /\ ~wait_event[handle[c]]
                 /\ result'[c] = TimeoutError(request[handle[c]].name.v[1],
                                              request[handle[c]].target)
                 /\ UNCHANGED <<app_wait_list, app_wait_list_lock, wait_event,
                                resolved_state, request>>
          ]_vars

\* a call has timed out and its request is still pending and unresolved
C5_Witness ==
    \E c \in Callers :
        /\ pc[c] = "idle"
        /\ result[c].type = "TimeoutError"
        /\ Pending(handle[c])
        /\ ~wait_event[handle[c]]
\* C12: whenever the lock is free, no request of the pending list has its
\* completion signal set or a value in its result slot; the slot of a
\* registered request is written and its signal set only in the step in which
\* the listener takes the lock, the request is taken out of the list only in the
\* step in which the listener gives that same acquisition up, and the resolved
\* requests are exactly the ones that step removes.
C12_ResolvedUnderOneAcquisition ==
    /\ [](app_wait_list_lock = Free =>
            \A r \in Requests :
                Pending(r) => (~wait_event[r] /\ resolved_state[r] = <<>>))
    /\ [](app_wait_list_lock = ListenerThread =>
            \A r \in Requests :
                Pending(r) => (wait_event[r] <=> InSeq(r, remove_these)))
    /\ [][ \A r \in Requests :
             /\ ( /\ appends[r] = 1
                  /\ (puts'[r] # puts[r] \/ sets'[r] # sets[r]) ) =>
                    /\ Pending(r)
                    /\ app_wait_list_lock = Free
                    /\ app_wait_list_lock' = ListenerThread
                    /\ puts'[r] = puts[r] + 1
                    /\ sets'[r] = sets[r] + 1
                    /\ wait_event'[r]
                    /\ resolved_state'[r] = <<message'.value>>
                    /\ InSeq(r, remove_these')
             /\ (Pending(r) /\ ~Pending(r)') =>
                    /\ app_wait_list_lock = ListenerThread
                    /\ app_wait_list_lock' = Free
                    /\ wait_event[r]
         ]_vars

\* the lock is free, one request was resolved and removed by the listener and
\* another one is pending and unresolved
C12_Witness ==
    /\ app_wait_list_lock = Free
    /\ \E r, q \in Requests :
          /\ removals[r] = 1 /\ wait_event[r] /\ ~Pending(r)
          /\ Pending(q) /\ ~wait_event[q] /\ resolved_state[q] = <<>>

\* C14: the lock is held by the listener exactly while it is between its scan
\* and the end of its removal loop, and by a caller exactly while it is at the
\* append of its registration; a caller that blocks on its completion signal
\* holds no lock.
C14_LockHeldOnlyInScanAndAppend ==
    /\ app_wait_list_lock \in
          {Free, ListenerThread} \cup {CallerThread(c) : c \in Callers}
    /\ app_wait_list_lock = ListenerThread <=> l_pc = "remove"
    /\ \A c \in Callers : app_wait_list_lock = CallerThread(c) <=> pc[c] = "locked"
    /\ \A c \in Callers : pc[c] = "waiting" => app_wait_list_lock # CallerThread(c)

\* one caller is at its append, holding the lock, while another one blocks on
\* the completion signal of its pending request
C14_Witness ==
    \E c, d \in Callers :
        /\ pc[c] = "locked" /\ app_wait_list_lock = CallerThread(c)
        /\ pc[d] = "waiting" /\ Pending(handle[d]) /\ ~wait_event[handle[d]]

\* the message that reports application name in the target state of request r
TargetMessage(r) ==
    [ok |-> TRUE, name |-> request[r].name, value |-> JStr(request[r].target)]

\* C15: between a caller's read of the state and its append the listener is
\* free to handle a message for that application whose value is one of the
\* acceptable states; such a message leaves the caller's handle unresolved,
\* and the caller then appends a request that is pending with its signal
\* clear although the message was already handled.
C15_LostWakeup ==
    /\ [](\A c \in Callers :
            (pc[c] = "registering" /\ l_pc = "idle" /\ app_wait_list_lock = Free)
                => ENABLED AppMessageScan(TargetMessage(handle[c])))
    /\ [](\A c \in Callers :
            (missed_message[c] /\ pc[c] \in {"registering", "locked"}) =>
                /\ ~wait_event[handle[c]]
                /\ resolved_state[handle[c]] = <<>>
                /\ ~Pending(handle[c]))
    /\ [][ \A c \in Callers :
             (missed_message[c] /\ pc[c] = "locked" /\ pc'[c] # "locked") =>
                 /\ pc'[c] = "waiting"
                 /\ Pending(handle[c])'
                 /\ ~wait_event'[handle[c]]
                 /\ resolved_state'[handle[c]] = <<>>
         ]_vars

\* a caller blocks on a pending, unresolved request although a message for it
\* was handled to the end after the caller had read the state
C15_Witness ==
    \E c \in Callers :
        /\ pc[c] = "waiting"
        /\ missed_message[c]
        /\ l_pc = "idle"
        /\ Pending(handle[c])
        /\ ~wait_event[handle[c]]

\* the call that created request r has ended in TimeoutError
TimedOut(r) ==
    \E c \in Callers :
        pc[c] = "idle" /\ handle[c] = r /\ result[c].type = "TimeoutError"

\* C16: when the listener handles a message {name, value} with name the
\* application of a pending request whose caller has timed out and value one
\* of the request's acceptable states, the request is eventually out of the
\* pending list.
C16_TimedOutRequestEventuallyRemoved ==
    \A r \in Requests :
        ( /\ TimedOut(r)
          /\ Pending(r)
          /\ l_pc = "remove"
          /\ SpecifiedMatch(r, message) ) ~> ~Pending(r)

\* C17: a wait_app_state call returns success only if, between the call and
\* the return, the application was in the target state at some moment or the
\* listener handled a message reporting it in the target state.
C17_SuccessOnlyIfInTargetDuringCall ==
    [][ \A c \in Callers :
          (pc[c] = "waiting" /\ pc'[c] = "idle" /\ result'[c].type = "ok") =>
              was_in_target[c]
      ]_vars

\* C19: while a caller has not yet read the result of a handle whose signal is
\* set, the result slot holds exactly one value and that value is one of the
\* handle's acceptable states.
C19_SetHandleHoldsAcceptableState ==
    \A c \in Callers :
        (pc[c] = "waiting" /\ wait_event[handle[c]]) =>
            /\ Len(resolved_state[handle[c]]) = 1
            /\ InList(resolved_state[handle[c]][1], request[handle[c]].state.v)

\* ================================================== machine signal tracker
\* C6: between two messages, once a message {state: s} has been handled to the
\* end, the three signals are a function of s alone: ready iff s = "Ready",
\* notReady iff s # "Ready", closingOrReady iff s is "Closing" or "Ready".
C6_SignalsFollowLastMessage ==
    (s_pc = "idle" /\ last_processed # NoKey) =>
        /\ wait_ready_event = (last_processed = JStr("Ready"))
        /\ wait_not_ready_event = (last_processed # JStr("Ready"))
        /\ wait_closing_event = (last_processed \in {JStr("Closing"), JStr("Ready")})

\* "Running" has been handled to the end while the machine had been "Ready"
\* or "Closing" before: ready and closingOrReady are clear, notReady is set
C6_Witness ==
    /\ s_pc = "idle"
    /\ last_processed = JStr("Running")
    /\ machineState = "Running"
    /\ statusFeed = <<>>
    /\ ~wait_ready_event /\ wait_not_ready_event /\ ~wait_closing_event

\* the condition an operation waits for, on a state read from the machine
Target(op, state) ==
    CASE op = "wait_ready" -> state = "Ready"
      [] op = "wait_closing" -> state \in {"Closing", "Ready"}
      [] op = "wait_not_ready" -> state \in MachineStates \ {"Ready"}
      [] OTHER -> FALSE

\* C7: an operation whose first snapshot of the machine state satisfies its
\* target condition returns true and never comes to block on its signal; an
\* operation that blocks returns true iff its signal is set and false on
\* timeout; no step of an operation sets or clears a signal.
C7_SnapshotThenSignal ==
    [][ /\ m_pc' = "blocked" => ~Target(m_op', m_snap')
        /\ (m_pc # "done" /\ m_pc' = "done" /\ Target(m_op', m_snap')) => m_ret' = "True"
        /\ (m_pc = "blocked" /\ m_pc' = "done") =>
              m_ret' = (IF Signal(m_op) THEN "True" ELSE "False")
        /\ (m_pc' # m_pc) => UNCHANGED signals
      ]_vars

\* C18: wait_ready returns True only if the machine was "Ready" at some
\* moment between the call and the return, and wait_not_ready returns True
\* only if the machine was in a state other than "Ready" at some moment
\* between the call and the return.
C18_TrueOnlyIfStateHeldDuringCall ==
    (m_pc = "done" /\ m_ret = "True") =>
        /\ m_op = "wait_ready" => "Ready" \in m_during
        /\ m_op = "wait_not_ready" => m_during \ {"Ready"} # {}

\* C20: between two messages, once a message with a state has been handled to
\* the end, exactly one of the ready and notReady signals is set and ready
\* implies closingOrReady; a message that is taken from the feed and dropped
\* (undecodable, without state, or with a raising callback) changes none of
\* the three signals.
C20_ReadyXorNotReady ==
    /\ []((s_pc = "idle" /\ last_processed # NoKey) =>
            /\ wait_ready_event # wait_not_ready_event
            /\ wait_ready_event => wait_closing_event)
    /\ [][ (s_pc = "idle" /\ s_pc' = "idle" /\ Len(statusFeed') < Len(statusFeed)) =>
              UNCHANGED <<signals, last_processed>>
         ]_vars

\* "Ready" was handled to the end, the machine then went to "Running" and the
\* message reporting it was dropped because the callback raised: ready and
\* closingOrReady are still set, notReady is clear
C20_Witness ==
    /\ s_pc = "idle"
    /\ has_callback
    /\ last_processed = JStr("Ready")
    /\ machineState = "Running"
    /\ statusFeed = <<>>
    /\ wait_ready_event /\ ~wait_not_ready_event /\ wait_closing_event

\* ============================================================ both feeds
\* a message of the application feed with both keys, for an application
\* nobody waits for
PlainAppMessage == [ok |-> TRUE, name |-> JStr("app2"), value |-> JStr("Running")]

\* C13: a message that is not JSON or lacks the key it is read for is
\* discarded on either feed: the handler is back between two messages, the
\* lock is as it was and not held by the listener, the pending list, the
\* requests' signals and slots and the three machine signals are unchanged;
\* and the listener takes the next message of that feed as before.
C13_MalformedMessageDiscarded ==
    /\ [][ (l_exc' # l_exc /\ l_exc' # "none") =>
              /\ l_pc = "idle" /\ l_pc' = "idle"
              /\ app_wait_list_lock' = app_wait_list_lock
              /\ app_wait_list_lock' # ListenerThread
              /\ UNCHANGED <<app_wait_list, wait_event, resolved_state,
                             remove_these, signals>>
         ]_vars
    /\ [][ ( /\ s_pc = "idle"
              /\ statusFeed # <<>>
              /\ statusFeed' = Tail(statusFeed)
              /\ (~Head(statusFeed).ok \/ Head(statusFeed).state = NoKey) ) =>
              /\ s_pc' = "idle"
              /\ s_exc' \in {"JSONDecodeError", "KeyError"}
              /\ UNCHANGED <<signals, last_processed, app_wait_list,
                             app_wait_list_lock>>
         ]_vars
    /\ []((l_pc = "idle" /\ app_wait_list_lock = Free) =>
             ENABLED AppMessageScan(PlainAppMessage))
    /\ []((s_pc = "idle" /\ statusFeed # <<>>) => ENABLED StatusMessageBegin(FALSE))

\* the last message of either feed was discarded, the application one by a
\* KeyError in the scan of a pending request: the request is still pending,
\* the lock is free and the signals are as the "Ready" message left them
C13_Witness ==
    /\ l_exc = "KeyError" /\ l_pc = "idle"
    /\ s_exc = "JSONDecodeError" /\ s_pc = "idle"
    /\ app_wait_list_lock = Free
    /\ \E r \in Requests : Pending(r) /\ ~wait_event[r]
    /\ last_processed = JStr("Ready")
    /\ wait_ready_event /\ ~wait_not_ready_event /\ wait_closing_event

\* ======================================================== action invocation
\* the fields of a field list that carry a value and are not overridden by a
\* later field of the same name
Defaults(fields) ==
    {i \in 1..Len(fields) :
        /\ fields[i].has_value
        /\ \A j \in (i + 1)..Len(fields) :
              fields[j].name = fields[i].name => ~fields[j].has_value}

\* C8: the body of a POST invocation holds exactly the caller's keyword
\* arguments and, for every other field name with a static default, that
\* default; and an invocation never changes the action's fields.
C8_BodyIsDefaultsOverridden ==
    /\ action = built
    /\ sent.verb = "POST" =>
          /\ DOMAIN sent.json =
                DOMAIN kwargs \cup {built.fields[i].name : i \in Defaults(built.fields)}
          /\ \A k \in DOMAIN kwargs : sent.json[k] = kwargs[k]
          /\ \A i \in Defaults(built.fields) :
                built.fields[i].name \notin DOMAIN kwargs =>
                    sent.json[built.fields[i].name] = built.fields[i].value

\* static {mode: auto}, invoked with {mode: manual}: the body is {mode: manual}
C8_Witness ==
    /\ sent.verb = "POST"
    /\ built.fields = <<[name |-> "mode", has_value |-> TRUE, value |-> "auto"]>>
    /\ DOMAIN kwargs = {"mode"}
    /\ kwargs["mode"] = "manual"
    /\ DOMAIN sent.json = {"mode"}
    /\ sent.json["mode"] = "manual"

\* ================================================ construction of the registry
\* the action names of the detail document of an entity
DocumentActionNames(entity) ==
    LET doc == DetailDocument(entity.href)
    IN  {doc.actions[i].name : i \in 1..Len(doc.actions)} \cup
        (IF doc.has_blocked
         THEN {doc.blocked_actions[i].name : i \in 1..Len(doc.blocked_actions)}
         ELSE {})

CarriesAlias(entity) == entity.has_alias /\ entity.alias # ""

\* a pass of the loop over the entity at r_idx, and one that ran to its end
Pass == r_status = "running" /\ r_idx <= Len(entities) /\ <<r_idx, r_status>>' # <<r_idx, r_status>>
PassCompleted == r_status = "running" /\ r_idx' = r_idx + 1

C10_CanonicalEntryNeverReplaced ==
    [][ \A k \in DOMAIN applications :
          applications[k].properties.name = k =>
              (k \in DOMAIN applications' /\ applications'[k] = applications[k])
      ]_vars

\* whether the detail document of an entity cannot be fetched or decoded
FetchFails(entity) == ~DetailDocument(entity.href).ok

\* C11: when the detail document of an entity cannot be fetched or decoded,
\* the pass over that entity still runs to its end and registers the entity
\* with an empty action map, so that the loop goes on to the next entity.
C11_FailedFetchRegistersEmpty ==
    [][ ( /\ Pass
          /\ FetchFails(entities[r_idx])
          /\ AssignedKey(entities[r_idx]) # "" ) =>
            /\ PassCompleted
            /\ r_status' = "running"
            /\ AssignedKey(entities[r_idx]) \in DOMAIN applications'
            /\ applications'[AssignedKey(entities[r_idx])].actions = EmptyDict
      ]_vars

====
